---- MODULE Spec2Model ----
(***************************************************************************)
(* Model of olmocr/bench/benchmark.py: the rule-file validator             *)
(* (validate_jsonl_file), the rule evaluator (run_rule), the candidate     *)
(* aggregator (evaluate_candidate) and the loading/evaluation loop of      *)
(* main.                                                                   *)
(*                                                                         *)
(* Representation.                                                         *)
(*  - A JSON object is a TLA+ record whose DOMAIN is the set of keys the   *)
(*    object has, so `"text" not in data` is "text" \notin DOMAIN data.    *)
(*  - The strings `before` and `after` are represented by their length,    *)
(*    the only thing the program reads of them besides handing them to     *)
(*    the matcher.                                                         *)
(*  - Ratios and thresholds are in hundredths: 100 is 1.0, 75 is 0.75.     *)
(*  - The text of a .md file is represented by what the two library        *)
(*    matchers report on it: `ratio` is fuzz.partial_ratio(text, content)  *)
(*    and `boccs`/`aoccs` are the occurrences of `before`/`after` in the   *)
(*    content, each with its start offset and its Levenshtein distance.    *)
(*  - A score is an exact fraction <<numerator, denominator>>.             *)
(***************************************************************************)
EXTENDS Integers, Sequences, FiniteSets, TLC

VARIABLES
    pc,            \* position of the run
    rule,          \* run_rule: the rule argument
    md,            \* run_rule: the .md file argument
    outcome,       \* run_rule: what the call produced
    jsonl,         \* validate_jsonl_file: the lines of the file
    vres,          \* validate_jsonl_file: what the call produced
    all_rules,     \* evaluate_candidate / main: the rule list
    folder,        \* evaluate_candidate: the candidate folder, stem -> md files
    result,        \* evaluate_candidate: the returned tuple
    calls,         \* evaluate_candidate: the run_rule invocations, in order
    nfiles,        \* main: number of rule files validated so far
    origin         \* main: for each rule of all_rules, the file it came from

vars == <<pc, rule, md, outcome, jsonl, vres, all_rules, folder, result, calls, nfiles, origin>>

----------------------------------------------------------------------------
(* Bounds of the model. *)

MaxPos == 1          \* start offsets of reported occurrences are 0..MaxPos
MaxOccs == 2         \* occurrences of one pattern the matcher reports in one .md file
MaxLines == 3        \* lines of a rule file
MaxRules == 2        \* rules handed to evaluate_candidate
MaxRepeats == 2      \* .md repeats of one document in a candidate folder
MaxFiles == 2        \* rule files of a run

(* Program constants. *)

MinOrderLen == 10    \* len(data["before"]) < 10, len(data["after"]) < 10
DefaultThreshold == 100   \* rule.get("threshold", 1.0)

None == [kind |-> "none"]

----------------------------------------------------------------------------
(* Helpers: sequences and exact fractions. *)

RECURSIVE GCD(_, _)
GCD(a, b) == IF b = 0 THEN a ELSE GCD(b, a % b)

Frac(n, d) == LET g == GCD(n, d) IN IF g = 0 THEN <<0, 1>> ELSE <<n \div g, d \div g>>

FracAdd(x, y) == Frac(x[1] * y[2] + y[1] * x[2], x[2] * y[2])

FracDiv(x, n) == Frac(x[1], x[2] * n)

FracLess(x, y) == x[1] * y[2] < y[1] * x[2]

Zero == <<0, 1>>

One == <<1, 1>>

SeqsUpTo(S, n) == UNION {[1..k -> S] : k \in 0..n}

----------------------------------------------------------------------------
(* run_rule (lines 80-124). *)

Expl(kind, path, text, a, b) == [kind |-> kind, path |-> path, text |-> text, a |-> a, b |-> b]

NoExpl == Expl("", <<>>, "", 0, 0)

Return(passed, explanation) == [raised |-> FALSE, passed |-> passed, explanation |-> explanation]

Raise(explanation) == [raised |-> TRUE, passed |-> FALSE, explanation |-> explanation]

\* rule.get("threshold", 1.0)
Threshold(r) == IF "threshold" \in DOMAIN r THEN r.threshold ELSE DefaultThreshold

\* Python's round() of the fraction n/d, d > 0: to nearest, ties to even.
PyRound(n, d) ==
    LET q == n \div d
        r == n % d
    IN  IF 2 * r < d THEN q
        ELSE IF 2 * r > d THEN q + 1
        ELSE IF q % 2 = 0 THEN q ELSE q + 1

\* max_l_dist = round((1.0 - threshold) * len(before))
MaxLDist(r) == PyRound((100 - Threshold(r)) * r.before, 100)

\* find_near_matches(pattern, md_content, max_l_dist=d): the occurrences of
\* the pattern within Levenshtein distance d.
FindNearMatches(occs, d) == {o \in occs : o.dist <= d}

\* mutant: the starts compared with <=
OrderedPair_Inclusive(before_matches, after_matches) ==
    \E b \in before_matches : \E a \in after_matches : b.start <= a.start

\* The loop over itertools.product(before_matches, after_matches).
OrderedPair(before_matches, after_matches) ==
    \E b \in before_matches : \E a \in after_matches : b.start < a.start

PresentPasses(best_ratio, threshold) == best_ratio >= threshold

\* mutant: absent compared with <=
AbsentPasses_Inclusive(best_ratio, threshold) == best_ratio <= threshold

AbsentPasses(best_ratio, threshold) == best_ratio < threshold

RunOrder(r, f) ==
    IF ~({"before", "after"} \subseteq DOMAIN r)
    THEN Raise(Expl("type_error", <<>>, "", 0, 0))     \* len(None), or a None pattern
    ELSE
    LET max_l_dist == MaxLDist(r) IN
    IF max_l_dist < 0
    THEN Raise(Expl("matcher_error", <<>>, "", max_l_dist, 0))  \* the matcher rejects a negative bound
    ELSE
    LET before_matches == FindNearMatches(f.boccs, max_l_dist)
        after_matches == FindNearMatches(f.aoccs, max_l_dist)
    IN  IF before_matches = {} THEN Return(FALSE, Expl("before_not_found", <<>>, "", max_l_dist, 0))
        ELSE IF after_matches = {} THEN Return(FALSE, Expl("after_not_found", <<>>, "", max_l_dist, 0))
        ELSE IF OrderedPair(before_matches, after_matches) THEN Return(TRUE, NoExpl)
        ELSE Return(FALSE, Expl("no_order", <<>>, "", 0, 0))

RunText(r, f) ==
    IF "text" \notin DOMAIN r
    THEN Raise(Expl("key_error", <<>>, "text", 0, 0))
    ELSE
    LET threshold == Threshold(r)
        best_ratio == f.ratio
        passes == IF r.type = "present" THEN PresentPasses(best_ratio, threshold)
                                        ELSE AbsentPasses(best_ratio, threshold)
    IN  IF passes THEN Return(TRUE, NoExpl)
        ELSE Return(FALSE, Expl("ratio", <<>>, r.text, threshold, best_ratio))

\* mutant: an unknown type returned as a fail instead of raised
RunOnContent_ReturnsFail(r, f) ==
    IF r.type \in {"present", "absent"} THEN RunText(r, f)
    ELSE IF r.type = "order" THEN RunOrder(r, f)
    ELSE Return(FALSE, Expl("not_implemented", <<>>, r.type, 0, 0))

RunOnContent(r, f) ==
    IF r.type \in {"present", "absent"} THEN RunText(r, f)
    ELSE IF r.type = "order" THEN RunOrder(r, f)
    ELSE Raise(Expl("not_implemented", <<>>, r.type, 0, 0))

\* mutant: the read not wrapped in try/except
RunRule_NoTry(r, f) ==
    IF ~f.readable
    THEN Raise(Expl("read_error", f.path, "", 0, 0))
    ELSE RunOnContent(r, f)

RunRule(r, f) ==
    IF ~f.readable
    THEN Return(FALSE, Expl("read_error", f.path, "", 0, 0))
    ELSE RunOnContent(r, f)

----------------------------------------------------------------------------
(* validate_jsonl_file (lines 25-77).  A line is [kind |-> "blank"], a line  *)
(* json.loads rejects, [kind |-> "malformed"], or [kind |-> "json",          *)
(* data |-> the object].                                                     *)

\* os.path.basename(p), a path being the sequence of its components
Basename(p) == p[Len(p)]

\* all_pdf_basenames = [os.path.basename(p) for p in all_pdf_files]
Basenames(all_pdf_files) == {Basename(p) : p \in all_pdf_files}

\* line 46
MissingRequired(data) == ~({"pdf", "id", "type"} \subseteq DOMAIN data)

\* mutant: the id looked up in a set that is never filled
DuplicateId_Never(rule_id, rule_ids) == rule_id \in {}

\* line 50
DuplicateId(rule_id, rule_ids) == rule_id \in rule_ids

\* line 56
MissingPdf(data, all_pdf_basenames) == data.pdf \notin all_pdf_basenames

\* len(data["before"]) < 10, len(data["after"]) < 10
TooShort(n) == n < MinOrderLen

\* lines 60-74: "" when the type-specific fields are fine, else the error
TypeError(data) ==
    IF data.type \in {"present", "absent"}
    THEN IF "text" \notin DOMAIN data THEN "text_required" ELSE ""
    ELSE IF data.type = "order"
    THEN IF "before" \notin DOMAIN data THEN "before_required"
         ELSE IF TooShort(data.before) THEN "before_too_short"
         ELSE IF "after" \notin DOMAIN data THEN "after_required"
         ELSE IF TooShort(data.after) THEN "after_too_short"
         ELSE ""
    ELSE "unknown_type"

\* lines 40-74 for one non-blank line: "" when the record is accepted
LineError(line, rule_ids, all_pdf_basenames) ==
    IF line.kind = "malformed" THEN "invalid_json"
    ELSE LET data == line.data IN
         IF MissingRequired(data) THEN "missing_required"
         ELSE IF DuplicateId(data.id, rule_ids) THEN "duplicate_rule"
         ELSE IF MissingPdf(data, all_pdf_basenames) THEN "missing_pdf"
         ELSE TypeError(data)

Raised(error, line_num) == [ok |-> FALSE, rules |-> <<>>, error |-> error, line_num |-> line_num]

Returned(rules) == [ok |-> TRUE, rules |-> rules, error |-> "", line_num |-> 0]

\* the loop `for line_num, line in enumerate(f, start=1)`
RECURSIVE ValidateFrom(_, _, _, _, _)
ValidateFrom(lines, line_num, rules, rule_ids, all_pdf_basenames) ==
    IF line_num > Len(lines) THEN Returned(rules)
    ELSE LET line == lines[line_num] IN
         IF line.kind = "blank"
         THEN ValidateFrom(lines, line_num + 1, rules, rule_ids, all_pdf_basenames)
         ELSE LET error == LineError(line, rule_ids, all_pdf_basenames) IN
              IF error # "" THEN Raised(error, line_num)
              ELSE ValidateFrom(lines, line_num + 1, Append(rules, line.data),
                                rule_ids \cup {line.data.id}, all_pdf_basenames)

validate_jsonl_file(lines, all_pdf_files) ==
    ValidateFrom(lines, 1, <<>>, {}, Basenames(all_pdf_files))

----------------------------------------------------------------------------
(* evaluate_candidate (lines 127-197).  The candidate folder is given by    *)
(* what glob.glob returns for each pattern "<md_base>_*.md": a list of .md  *)
(* files, in the order glob lists them.                                     *)

\* os.path.splitext(pdf_name)[0]
Splitext(pdf_name) ==
    CASE pdf_name = "doc1.pdf" -> "doc1"
      [] pdf_name = "doc2.pdf" -> "doc2"
      [] OTHER -> pdf_name

\* glob.glob(os.path.join(candidate_folder, f"{md_base}_*.md"))
Glob(candidate_folder, md_base) ==
    IF md_base \in DOMAIN candidate_folder THEN candidate_folder[md_base] ELSE <<>>

CandError(kind, pdf, id, path, explanation) ==
    [kind |-> kind, pdf |-> pdf, id |-> id, path |-> path, explanation |-> explanation]

\* rule.get('id')
RuleId(r) == IF "id" \in DOMAIN r THEN r.id ELSE "None"

\* lines 149-156: the candidate errors of the documents without repeats
RECURSIVE MissingRepeats(_, _, _)
MissingRepeats(candidate_folder, pdf_basenames, i) ==
    IF i > Len(pdf_basenames) THEN <<>>
    ELSE LET pdf_name == pdf_basenames[i]
             md_files == Glob(candidate_folder, Splitext(pdf_name))
             rest == MissingRepeats(candidate_folder, pdf_basenames, i + 1)
         IN  IF md_files = <<>>
             THEN <<CandError("missing_repeats", pdf_name, "", <<>>, NoExpl)>> \o rest
             ELSE rest

\* lines 148-156: pdf_to_md_files, the documents that have repeats
PdfToMdFiles(candidate_folder, pdf_basenames) ==
    LET names == {pdf_basenames[i] : i \in 1..Len(pdf_basenames)}
        found == {n \in names : Glob(candidate_folder, Splitext(n)) # <<>>}
    IN  [n \in found |-> Glob(candidate_folder, Splitext(n))]

\* pdf_to_md_files.get(pdf_name, [])
MdFilesOf(pdf_to_md_files, pdf_name) ==
    IF pdf_name \in DOMAIN pdf_to_md_files THEN pdf_to_md_files[pdf_name] ELSE <<>>

\* mutant: short-circuits only when more than one document lacks repeats
ShortCircuits_Several(candidate_errors) == Len(candidate_errors) > 1

\* line 158
ShortCircuits(candidate_errors) == candidate_errors # <<>>

\* lines 180-183: run_rule returned
OnReturn(acc, out) ==
    IF out.passed
    THEN [acc EXCEPT !.repeat_passes = @ + 1]
    ELSE [acc EXCEPT !.explanations = Append(@, out.explanation)]

\* lines 184-186: run_rule raised
OnException(acc, r, md_path, out) ==
    [acc EXCEPT !.errors = Append(@, CandError("rule_error", "", RuleId(r), md_path, out.explanation)),
                !.explanations = Append(@, out.explanation)]

\* lines 176-186: the loop over the repeats of one rule
RECURSIVE RepeatsFrom(_, _, _, _)
RepeatsFrom(r, md_files, k, acc) ==
    IF k > Len(md_files) THEN acc
    ELSE LET md_file == md_files[k]
             out == RunRule(r, md_file)
             counted == [acc EXCEPT !.num_repeats = @ + 1,
                                    !.calls = Append(@, [rule |-> r, path |-> md_file.path])]
         IN  RepeatsFrom(r, md_files, k + 1,
                         IF out.raised THEN OnException(counted, r, md_file.path, out)
                                       ELSE OnReturn(counted, out))

\* mutant: integer division of the passes by the repeats
RuleAvg_FloorDiv(repeat_passes, num_repeats) ==
    IF num_repeats > 0 THEN Frac(repeat_passes \div num_repeats, 1) ELSE Zero

\* line 187
RuleAvg(repeat_passes, num_repeats) ==
    IF num_repeats > 0 THEN Frac(repeat_passes, num_repeats) ELSE Zero

\* line 189
IsFailure(rule_avg) == FracLess(rule_avg, One)

\* mutant: the last explanation instead of the first
Example_Last(explanations) ==
    IF explanations # <<>> THEN explanations[Len(explanations)] ELSE Expl("no_explanation", <<>>, "", 0, 0)

\* line 192: explanations[0] if explanations else 'No explanation'
Example(explanations) ==
    IF explanations # <<>> THEN explanations[1] ELSE Expl("no_explanation", <<>>, "", 0, 0)

Failure(r, md_base, rule_avg, acc) ==
    [id |-> RuleId(r), md_base |-> md_base, rule_avg |-> rule_avg,
     repeat_passes |-> acc.repeat_passes, num_repeats |-> acc.num_repeats,
     example |-> Example(acc.explanations)]

\* rule_type_breakdown[rule_type] = [] unless the key is there (lines 166-167)
WithKey(breakdown, rule_type) ==
    IF rule_type \in DOMAIN breakdown THEN breakdown ELSE breakdown @@ (rule_type :> <<>>)

\* lines 164-194: one iteration of the loop over the rules
OneRule(r, pdf_to_md_files, st) ==
    LET rule_type == r.type
        keyed == [st EXCEPT !.rule_type_breakdown = WithKey(@, rule_type)]
        pdf_name == r.pdf
        md_base == Splitext(pdf_name)
        md_files == MdFilesOf(pdf_to_md_files, pdf_name)
    IN  IF md_files = <<>> THEN keyed
        ELSE
        LET acc == RepeatsFrom(r, md_files, 1,
                       [repeat_passes |-> 0, num_repeats |-> 0, explanations |-> <<>>,
                        errors |-> keyed.candidate_errors, calls |-> keyed.calls])
            rule_avg == RuleAvg(acc.repeat_passes, acc.num_repeats)
        IN  [total_rule_score |-> FracAdd(keyed.total_rule_score, rule_avg),
             candidate_errors |-> acc.errors,
             rule_failures |-> IF IsFailure(rule_avg)
                               THEN Append(keyed.rule_failures, Failure(r, md_base, rule_avg, acc))
                               ELSE keyed.rule_failures,
             rule_type_breakdown |-> [keyed.rule_type_breakdown EXCEPT ![rule_type] = Append(@, rule_avg)],
             calls |-> acc.calls]

RECURSIVE RulesFrom(_, _, _, _)
RulesFrom(rules, i, pdf_to_md_files, st) ==
    IF i > Len(rules) THEN st
    ELSE RulesFrom(rules, i + 1, pdf_to_md_files, OneRule(rules[i], pdf_to_md_files, st))

\* line 196
OverallScore(total_rule_score, rules) ==
    IF rules # <<>> THEN FracDiv(total_rule_score, Len(rules)) ELSE Zero

EmptyBreakdown == [t \in {} |-> <<>>]

Result(overall_score, total_rules, st) ==
    [overall_score |-> overall_score, total_rules |-> total_rules,
     candidate_errors |-> st.candidate_errors, rule_failures |-> st.rule_failures,
     rule_type_breakdown |-> st.rule_type_breakdown, calls |-> st.calls]

\* The returned tuple, with the run_rule invocations it made as `calls`.
evaluate_candidate(candidate_folder, rules, pdf_basenames) ==
    LET candidate_errors == MissingRepeats(candidate_folder, pdf_basenames, 1)
        pdf_to_md_files == PdfToMdFiles(candidate_folder, pdf_basenames)
        st0 == [total_rule_score |-> Zero, candidate_errors |-> candidate_errors,
                rule_failures |-> <<>>, rule_type_breakdown |-> EmptyBreakdown, calls |-> <<>>]
    IN  IF ShortCircuits(candidate_errors)
        THEN Result(Zero, Len(rules), st0)
        ELSE LET st == RulesFrom(rules, 1, pdf_to_md_files, st0)
             IN  Result(OverallScore(st.total_rule_score, rules), Len(rules), st)

----------------------------------------------------------------------------
(* Inputs. *)

Thresholds == {0, 50, 75, 100, 150}

WithThresholds(rs) == rs \cup {r @@ [threshold |-> t] : r \in rs, t \in Thresholds}

TextRules == {[type |-> t, text |-> "needle"] : t \in {"present", "absent"}}

OrderRules == {[type |-> "order", before |-> n, after |-> MinOrderLen] : n \in {MinOrderLen, 2 * MinOrderLen}}

UnknownRules == {[type |-> "table"]}

\* the rules run_rule is applied to
RunRuleRules == WithThresholds(TextRules \cup OrderRules) \cup UnknownRules

Occs == [start : 0..MaxPos, dist : {0, 3}]

OccSets == {s \in SUBSET Occs : Cardinality(s) <= MaxOccs}

Ratios == {0, 50, 75, 100}

\* the .md files run_rule is applied to
MdFiles == [path : {<<"doc1", 1>>}, readable : BOOLEAN, ratio : Ratios, boccs : OccSets, aoccs : OccSets]

AllPdfFiles == {<<"pdfs", "doc1.pdf">>, <<"pdfs", "doc2.pdf">>}

PdfBasenames == <<"doc1.pdf", "doc2.pdf">>

Json(data) == [kind |-> "json", data |-> data]

GoodShapes ==
    {[type |-> "present", text |-> "needle"], [type |-> "absent", text |-> "needle"],
     [type |-> "order", before |-> MinOrderLen, after |-> MinOrderLen]}

BadShapes ==
    {[type |-> "present"], [type |-> "absent"], [type |-> "table"], [text |-> "needle"],
     [type |-> "order"], [type |-> "order", before |-> MinOrderLen], [type |-> "order", after |-> MinOrderLen],
     [type |-> "order", before |-> MinOrderLen - 1, after |-> MinOrderLen],
     [type |-> "order", before |-> MinOrderLen, after |-> MinOrderLen - 1]}

\* the lines of the rule files validate_jsonl_file is applied to
Lines ==
    {[kind |-> "blank"], [kind |-> "malformed"]}
    \cup {Json([id |-> i, pdf |-> "doc1.pdf"] @@ sh) : i \in {"r1", "r2"}, sh \in GoodShapes}
    \cup {Json([id |-> "r2", pdf |-> "doc1.pdf"] @@ sh) : sh \in BadShapes}
    \cup {Json([id |-> "r1", pdf |-> "ghost.pdf", type |-> "present", text |-> "needle"]),
          Json([pdf |-> "doc1.pdf", type |-> "present", text |-> "needle"]),
          Json([id |-> "r1", type |-> "present", text |-> "needle"])}

\* the rules evaluate_candidate is called with: rule i has id ToString(i)
EvalShapes ==
    {sh @@ [pdf |-> p] : sh \in {[type |-> "present", text |-> "needle"], [type |-> "table"]},
                         p \in {"doc1.pdf", "doc2.pdf"}}
    \cup {[type |-> "absent", text |-> "needle", pdf |-> "doc1.pdf"],
          [type |-> "order", before |-> MinOrderLen, after |-> MinOrderLen, pdf |-> "doc2.pdf"]}

WithIds(shapes) == [i \in DOMAIN shapes |-> shapes[i] @@ [id |-> ToString(i)]]

EvalRuleLists == {WithIds(shapes) : shapes \in SeqsUpTo(EvalShapes, MaxRules)}

Unreadable == [readable |-> FALSE, ratio |-> 0, boccs |-> {}, aoccs |-> {}]

Good == [readable |-> TRUE, ratio |-> 100, boccs |-> {[start |-> 0, dist |-> 0]}, aoccs |-> {[start |-> 1, dist |-> 0]}]

Bad == [readable |-> TRUE, ratio |-> 50, boccs |-> {[start |-> 1, dist |-> 0]}, aoccs |-> {[start |-> 0, dist |-> 0]}]

Contents == {Unreadable, Good, Bad}

\* the files glob lists for one stem: file k has path <<stem, k>>
WithPaths(stem, contents) == [k \in DOMAIN contents |-> contents[k] @@ [path |-> <<stem, k>>]]

\* the candidate folders: any repeats of doc1, readable repeats of doc2
Folders ==
    {[stem \in {"doc1", "doc2"} |-> WithPaths(stem, IF stem = "doc1" THEN c[1] ELSE c[2])] :
        c \in SeqsUpTo(Contents, MaxRepeats) \X SeqsUpTo({Good, Bad}, MaxRepeats)}

\* the candidate folders of a run of main: at most one repeat per document
MainFolders ==
    {[stem \in {"doc1", "doc2"} |-> WithPaths(stem, c[stem])] :
        c \in [{"doc1", "doc2"} -> {<<>>, <<Good>>, <<Bad>>}]}

\* the lines of the rule files of a run of main
MainLines ==
    {[kind |-> "malformed"],
     Json([id |-> "r1", pdf |-> "doc1.pdf", type |-> "present", text |-> "needle"]),
     Json([id |-> "r1", pdf |-> "doc1.pdf", type |-> "present", text |-> "needle", threshold |-> 0]),
     Json([id |-> "r2", pdf |-> "doc2.pdf", type |-> "absent", text |-> "needle"]),
     Json([id |-> "r2", pdf |-> "doc2.pdf", type |-> "absent", text |-> "needle", threshold |-> 150])}

----------------------------------------------------------------------------
(* A call of run_rule. *)

InitRule ==
    /\ pc = "run_rule"
    /\ rule \in RunRuleRules
    /\ md \in MdFiles
    /\ outcome = None
    /\ jsonl = <<>> /\ vres = None
    /\ all_rules = <<>> /\ folder = None /\ result = None /\ calls = <<>>
    /\ nfiles = 0 /\ origin = <<>>

RunRuleCall ==
    /\ pc = "run_rule"
    /\ outcome' = RunRule(rule, md)
    /\ pc' = "run_rule_done"
    /\ UNCHANGED <<rule, md, jsonl, vres, all_rules, folder, result, calls, nfiles, origin>>

NextRule == RunRuleCall

SpecRule == InitRule /\ [][NextRule]_vars

----------------------------------------------------------------------------
(* A call of validate_jsonl_file. *)

InitValidate ==
    /\ pc = "validate"
    /\ jsonl \in SeqsUpTo(Lines, MaxLines)
    /\ vres = None
    /\ rule = None /\ md = None /\ outcome = None
    /\ all_rules = <<>> /\ folder = None /\ result = None /\ calls = <<>>
    /\ nfiles = 0 /\ origin = <<>>

ValidateCall ==
    /\ pc = "validate"
    /\ vres' = validate_jsonl_file(jsonl, AllPdfFiles)
    /\ pc' = "validate_done"
    /\ UNCHANGED <<rule, md, outcome, jsonl, all_rules, folder, result, calls, nfiles, origin>>

NextValidate == ValidateCall

SpecValidate == InitValidate /\ [][NextValidate]_vars

----------------------------------------------------------------------------
(* A call of evaluate_candidate. *)

Tuple(r) == [overall_score |-> r.overall_score, total_rules |-> r.total_rules,
             candidate_errors |-> r.candidate_errors, rule_failures |-> r.rule_failures,
             rule_type_breakdown |-> r.rule_type_breakdown]

InitEval ==
    /\ pc = "evaluate"
    /\ all_rules \in EvalRuleLists
    /\ folder \in Folders
    /\ result = None /\ calls = <<>>
    /\ rule = None /\ md = None /\ outcome = None
    /\ jsonl = <<>> /\ vres = None
    /\ nfiles = 0 /\ origin = <<>>

EvaluateCall ==
    /\ pc = "evaluate"
    /\ LET r == evaluate_candidate(folder, all_rules, PdfBasenames)
       IN  result' = Tuple(r) /\ calls' = r.calls
    /\ pc' = "evaluate_done"
    /\ UNCHANGED <<rule, md, outcome, jsonl, vres, all_rules, folder, nfiles, origin>>

NextEval == EvaluateCall

SpecEval == InitEval /\ [][NextEval]_vars

----------------------------------------------------------------------------
(* main (lines 232-263): the rule files are validated one after the other,  *)
(* then every candidate folder is evaluated.                                 *)

Init ==
    /\ pc = "loading"
    /\ all_rules = <<>> /\ nfiles = 0 /\ origin = <<>>
    /\ folder = None /\ result = None /\ calls = <<>>
    /\ rule = None /\ md = None /\ outcome = None
    /\ jsonl = <<>> /\ vres = None

\* lines 233-240: one iteration of the loop over jsonl_files
LoadFile ==
    /\ pc = "loading"
    /\ nfiles < MaxFiles
    /\ \E file \in SeqsUpTo(MainLines, MaxLines) :
         LET rules == validate_jsonl_file(file, AllPdfFiles) IN
         IF rules.ok
         THEN /\ all_rules' = all_rules \o rules.rules
              /\ origin' = origin \o [i \in 1..Len(rules.rules) |-> nfiles + 1]
              /\ nfiles' = nfiles + 1
              /\ pc' = "loading"
         ELSE /\ pc' = "exit"
              /\ nfiles' = nfiles + 1
              /\ UNCHANGED <<all_rules, origin>>
    /\ UNCHANGED <<rule, md, outcome, jsonl, vres, folder, result, calls>>

\* lines 228-230 and 242-244: there is a rule file, and the loop over them ended
LoadDone ==
    /\ pc = "loading"
    /\ nfiles >= 1
    /\ pc' = IF all_rules = <<>> THEN "exit" ELSE "evaluating"
    /\ UNCHANGED <<rule, md, outcome, jsonl, vres, all_rules, folder, result, calls, nfiles, origin>>

\* lines 260-263: one iteration of the loop over candidate_folders
EvaluateNext ==
    /\ pc = "evaluating"
    /\ \E candidate \in MainFolders :
         LET r == evaluate_candidate(candidate, all_rules, PdfBasenames)
         IN  folder' = candidate /\ result' = Tuple(r) /\ calls' = r.calls
    /\ pc' = "evaluating"
    /\ UNCHANGED <<rule, md, outcome, jsonl, vres, all_rules, nfiles, origin>>

\* lines 253-255 and 274-290: a candidate was evaluated, and the loop ended
Summary ==
    /\ pc = "evaluating"
    /\ result # None
    /\ pc' = "done"
    /\ UNCHANGED <<rule, md, outcome, jsonl, vres, all_rules, folder, result, calls, nfiles, origin>>

Next == LoadFile \/ LoadDone \/ EvaluateNext \/ Summary

Spec == Init /\ [][Next]_vars

----------------------------------------------------------------------------
(* Properties of evaluate_candidate, stated on the call's arguments          *)
(* (all_rules, folder) and on what it returned (result, calls).              *)

Evaluated == pc = "evaluate_done"

\* the documents of pdf_basenames the folder has no repeat of
DocsWithoutRepeats == {i \in DOMAIN PdfBasenames : folder[Splitext(PdfBasenames[i])] = <<>>}

Complete == Evaluated /\ DocsWithoutRepeats = {}

\* the repeats of the document of rule i
RepeatsOf(i) == folder[Splitext(all_rules[i].pdf)]

\* the repeats of rule i's document on which run_rule passes
PassingRepeats(i) == {k \in DOMAIN RepeatsOf(i) : RunRule(all_rules[i], RepeatsOf(i)[k]).passed}

Elements(seq) == {seq[i] : i \in DOMAIN seq}

\* C1: when a document of pdf_basenames has no repeat, the result is
\* overall_score 0.0, total_rules = len(all_rules), one candidate error per
\* document without repeats, no failure, an empty breakdown, and run_rule was
\* not invoked.
C1_ShortCircuit ==
    (Evaluated /\ DocsWithoutRepeats # {}) =>
        /\ result.overall_score = Zero
        /\ result.total_rules = Len(all_rules)
        /\ Len(result.candidate_errors) = Cardinality(DocsWithoutRepeats)
        /\ \A i \in DocsWithoutRepeats :
             \E e \in Elements(result.candidate_errors) :
                e.kind = "missing_repeats" /\ e.pdf = PdfBasenames[i]
        /\ result.candidate_errors # <<>>
        /\ result.rule_failures = <<>>
        /\ DOMAIN result.rule_type_breakdown = {}
        /\ calls = <<>>

\* one document has no repeat, the other has two, and there are rules
C1_Witness ==
    /\ Evaluated
    /\ Cardinality(DocsWithoutRepeats) = 1
    /\ \E stem \in DOMAIN folder : Len(folder[stem]) >= 2
    /\ Len(all_rules) >= 2
    /\ result.overall_score = Zero

RECURSIVE RepeatProduct(_)
RepeatProduct(i) == IF i = 0 THEN 1 ELSE Len(RepeatsOf(i)) * RepeatProduct(i - 1)

\* sum over the rules 1..i of passes/repeats, in units of 1/d
RECURSIVE ScaledSum(_, _)
ScaledSum(i, d) ==
    IF i = 0 THEN 0
    ELSE Cardinality(PassingRepeats(i)) * (d \div Len(RepeatsOf(i))) + ScaledSum(i - 1, d)

\* C3: when no document lacks repeats, overall_score is the sum over the
\* rules of (passing repeats / repeats) divided by the number of rules, and
\* 0 <= overall_score <= 1.
C3_UnweightedMean ==
    Complete =>
        LET n == Len(all_rules)
            d == RepeatProduct(n)
            score == result.overall_score
        IN  /\ score[2] > 0
            /\ 0 <= score[1] /\ score[1] <= score[2]
            /\ n > 0 => score[1] * (n * d) = ScaledSum(n, d) * score[2]

\* two rules on documents with different numbers of repeats, one of them
\* passing on some but not all of its repeats
C3_Witness ==
    /\ Complete
    /\ Len(all_rules) = 2
    /\ Len(RepeatsOf(1)) # Len(RepeatsOf(2))
    /\ \E i \in 1..2 : PassingRepeats(i) # {} /\ Cardinality(PassingRepeats(i)) < Len(RepeatsOf(i))
    /\ result.overall_score # Zero

KnownTypes == {"present", "absent", "order"}

\* the (rule, repeat) pairs of the evaluation
RepeatPairs == UNION {{<<i, k>> : k \in DOMAIN RepeatsOf(i)} : i \in DOMAIN all_rules}

\* the (rule, repeat) pairs on which run_rule raises
Raising == {p \in RepeatPairs : RunRule(all_rules[p[1]], RepeatsOf(p[1])[p[2]]).raised}

FailuresOf(i) == {f \in Elements(result.rule_failures) : f.id = all_rules[i].id}

ErrorsOf(i, path) ==
    {e \in Elements(result.candidate_errors) :
        e.kind = "rule_error" /\ e.id = all_rules[i].id /\ e.path = path}

\* every repeat of every rule was handed to run_rule
AllRepeatsRun ==
    /\ \A i \in DOMAIN all_rules : \A k \in DOMAIN RepeatsOf(i) :
          \E c \in Elements(calls) : c.rule = all_rules[i] /\ c.path = RepeatsOf(i)[k].path
    /\ Len(calls) = Cardinality(RepeatPairs)

FirstNotPassing(i) ==
    LET notPassing == DOMAIN RepeatsOf(i) \ PassingRepeats(i)
    IN  IF notPassing = {} THEN 0
        ELSE CHOOSE k \in notPassing : \A l \in notPassing : k <= l

\* C9: an unreadable repeat makes run_rule return a fail with a read-error
\* explanation; a repeat on which run_rule raises is recorded in the
\* candidate errors and in the rule's explanations and counts as a repeat
\* that did not pass; every repeat of every rule is still evaluated and the
\* result has total_rules = len(all_rules).
C9_RecoveredPerRepeat ==
    Complete =>
        /\ \A i \in DOMAIN all_rules : \A k \in DOMAIN RepeatsOf(i) :
             ~RepeatsOf(i)[k].readable =>
                LET out == RunRule(all_rules[i], RepeatsOf(i)[k])
                IN  /\ ~out.raised /\ ~out.passed
                    /\ out.explanation.kind = "read_error"
                    /\ out.explanation.path = RepeatsOf(i)[k].path
                    /\ ErrorsOf(i, RepeatsOf(i)[k].path) = {}
        /\ \A p \in Raising :
             LET i == p[1]
                 file == RepeatsOf(i)[p[2]]
                 out == RunRule(all_rules[i], file)
             IN  /\ \E e \in ErrorsOf(i, file.path) : e.explanation = out.explanation
                 /\ \E f \in FailuresOf(i) :
                       /\ f.num_repeats = Len(RepeatsOf(i))
                       /\ f.repeat_passes = Cardinality(PassingRepeats(i))
                       /\ FirstNotPassing(i) = p[2] => f.example = out.explanation
        /\ AllRepeatsRun
        /\ result.total_rules = Len(all_rules)

\* the first rule raises on its first repeat and meets an unreadable second
\* repeat; a second rule follows and passes
C9_Witness ==
    /\ Complete
    /\ Len(all_rules) = 2
    /\ <<1, 1>> \in Raising
    /\ Len(RepeatsOf(1)) = 2 /\ ~RepeatsOf(1)[2].readable
    /\ PassingRepeats(2) # {}
    /\ Len(result.candidate_errors) = 1

\* the rules that did not pass on all their repeats
NotAllPassed == {i \in DOMAIN all_rules : Cardinality(PassingRepeats(i)) < Len(RepeatsOf(i))}

\* the m-th of them, in rule order
NthNotAllPassed(m) == CHOOSE i \in NotAllPassed : Cardinality({j \in NotAllPassed : j <= i}) = m

----------------------------------------------------------------------------
(* Properties of run_rule, stated on the call's arguments (rule, md) and on  *)
(* what it produced (outcome).                                               *)

RuleRun == pc = "run_rule_done"

Flipped(r) == [r EXCEPT !.type = IF @ = "present" THEN "absent" ELSE "present"]

\* C4: on a readable .md file, the present rule and the absent rule with the
\* same text and threshold never both pass and never both fail: present
\* passes iff ratio >= threshold, absent passes iff ratio < threshold.
C4_PresentAbsentComplementary ==
    (RuleRun /\ md.readable /\ rule.type \in {"present", "absent"}) =>
        LET other == RunRule(Flipped(rule), md)
            present == IF rule.type = "present" THEN outcome ELSE other
            absent == IF rule.type = "absent" THEN outcome ELSE other
            threshold == IF "threshold" \in DOMAIN rule THEN rule.threshold ELSE 100
        IN  /\ ~present.raised /\ ~absent.raised
            /\ present.passed # absent.passed
            /\ present.passed <=> md.ratio >= threshold
            /\ absent.passed <=> md.ratio < threshold
            /\ md.ratio = threshold => (present.passed /\ ~absent.passed)

\* an absent rule with an explicit threshold, run on a readable file whose
\* ratio is exactly the threshold
C4_Witness ==
    /\ RuleRun
    /\ md.readable
    /\ rule.type = "absent"
    /\ "threshold" \in DOMAIN rule
    /\ md.ratio = rule.threshold
    /\ ~outcome.passed

\* the occurrences the near-match search finds for the rule in md
Found(occs) == {o \in occs : o.dist <= MaxLDist(rule)}

\* C5: an order rule passes iff the search finds an occurrence of `before`
\* and one of `after` with the start of `before` strictly less than the
\* start of `after`; it fails when either search finds nothing and when every
\* `before` start is >= every `after` start.
C5_OrderByStart ==
    (RuleRun /\ md.readable /\ rule.type = "order") =>
        LET before_matches == Found(md.boccs)
            after_matches == Found(md.aoccs)
        IN  /\ outcome.passed <=>
                 /\ before_matches # {}
                 /\ after_matches # {}
                 /\ \E b \in before_matches, a \in after_matches : b.start < a.start
            /\ (before_matches = {} \/ after_matches = {}) => ~outcome.passed
            /\ (\A b \in before_matches, a \in after_matches : b.start >= a.start) => ~outcome.passed

\* both patterns are found, only at one and the same start offset, and the
\* rule fails
C5_Witness ==
    /\ RuleRun
    /\ md.readable
    /\ rule.type = "order"
    /\ Found(md.boccs) # {}
    /\ Found(md.aoccs) # {}
    /\ \A b \in Found(md.boccs), a \in Found(md.aoccs) : b.start = a.start
    /\ ~outcome.passed /\ ~outcome.raised

----------------------------------------------------------------------------
(* Properties of validate_jsonl_file, stated on the file (jsonl) and on what *)
(* the call produced (vres).                                                 *)

Validated == pc = "validate_done"

NonBlank(line) == line.kind # "blank"

Has(line, key) == line.kind = "json" /\ key \in DOMAIN line.data

\* line k of the file violates one of the rules of the record format
Defective(k) ==
    LET line == jsonl[k] IN
    /\ NonBlank(line)
    /\ \/ line.kind = "malformed"
       \/ ~Has(line, "pdf") \/ ~Has(line, "id") \/ ~Has(line, "type")
       \/ \E j \in 1..(k - 1) : Has(jsonl[j], "id") /\ jsonl[j].data.id = line.data.id
       \/ line.data.pdf \notin {"doc1.pdf", "doc2.pdf"}
       \/ line.data.type \notin {"present", "absent", "order"}
       \/ line.data.type \in {"present", "absent"} /\ ~Has(line, "text")
       \/ line.data.type = "order" /\ (~Has(line, "before") \/ ~Has(line, "after"))
       \/ line.data.type = "order" /\ (line.data.before < 10 \/ line.data.after < 10)

NonBlankData == LET kept == SelectSeq(jsonl, NonBlank) IN [k \in DOMAIN kept |-> kept[k].data]

\* C6: validate_jsonl_file fails, with no rule, at the first line that is
\* malformed, lacks pdf, id or type, repeats an id, names an unknown pdf, has
\* an unknown type, lacks text / before / after, or has before or after
\* shorter than 10; otherwise it returns the non-blank records, in order,
\* with pairwise distinct ids.
C6_ValidateAllOrNothing ==
    Validated =>
        IF \E k \in DOMAIN jsonl : Defective(k)
        THEN /\ ~vres.ok
             /\ vres.rules = <<>>
             /\ Defective(vres.line_num)
             /\ \A k \in 1..(vres.line_num - 1) : ~Defective(k)
        ELSE /\ vres.ok
             /\ vres.rules = NonBlankData
             /\ \A i, j \in DOMAIN vres.rules : vres.rules[i].id = vres.rules[j].id => i = j

\* a file of a record, a blank line and a second record, accepted
C6_Witness ==
    /\ Validated
    /\ Len(jsonl) = 3
    /\ jsonl[2].kind = "blank"
    /\ vres.ok
    /\ Len(vres.rules) = 2

----------------------------------------------------------------------------
(* Properties of a run of main. *)

\* two rules of all_rules that come from different files have the same id
DuplicateAcrossFiles ==
    \E i, j \in DOMAIN all_rules : origin[i] # origin[j] /\ all_rules[i].id = all_rules[j].id

\* C2: when two rule files of a run hold a record with the same id, the load
\* fails and no candidate is evaluated.
C2_UniqueAcrossFiles ==
    DuplicateAcrossFiles => (pc \notin {"evaluating", "done"} /\ result = None)

\* C7: every rule handed to run_rule has a threshold in (0, 1], the default
\* 1.0 when the record has none.
C7_ThresholdInRange ==
    \A k \in DOMAIN calls :
        /\ 0 < Threshold(calls[k].rule)
        /\ Threshold(calls[k].rule) <= 100
        /\ "threshold" \notin DOMAIN calls[k].rule => Threshold(calls[k].rule) = 100

====
